---- MODULE Spec2Model ----
(***************************************************************************)
(* Model of the dynamic form page (DynamicFormPage and FieldRenderer in    *)
(* src/src/pages/SubmissionListPage.tsx, lines 89-556) of the Smart        *)
(* Insurance portal: the visibility evaluator, the country/state option    *)
(* resolver, the draft store kept in localStorage, drag-and-drop           *)
(* reordering and the submit handler.                                      *)
(*                                                                         *)
(* JavaScript values are records [t, v]: t is the type tag and v the       *)
(* payload written as a string, so that values of different JavaScript     *)
(* types are comparable and never equal (strict equality, ===).            *)
(*                                                                         *)
(* The antd form instance is the variable store.  As antd documents,       *)
(* getFieldsValue() -- and with it the allValues of onValuesChange, the    *)
(* values of onFinish and Form.useWatch([], form) -- returns the values of *)
(* the mounted fields only, while the store keeps the value of a field     *)
(* that is no longer rendered.                                             *)
(***************************************************************************)
EXTENDS Integers, Sequences, FiniteSets, TLC

\* ------------------------------------------------------------------ bounds

\* Option fetches (GET /getStates) that may be in flight at the same time.
MaxPending == 2

\* Answer changes the user makes after one page load.
MaxChanges == 3

\* ------------------------------------------------------- JavaScript values

Undefined == [t |-> "undefined", v |-> ""]
Str(s) == [t |-> "string", v |-> s]
Num(s) == [t |-> "number", v |-> s]
\* The Dayjs object a DatePicker puts into the form.
Dayjs(iso) == [t |-> "dayjs", v |-> iso]

\* !v of JavaScript: undefined, "" and 0 are falsy.
Falsy(x) ==
    \/ x.t = "undefined"
    \/ x.t = "string" /\ x.v = ""
    \/ x.t = "number" /\ x.v = "0"

\* A value that holds no answer: undefined or the empty string.
IsEmptyValue(x) ==
    \/ x.t = "undefined"
    \/ x.t = "string" /\ x.v = ""

\* ------------------------------------------------------------ form schema

NoVisibility == [dependsOn |-> "", condition |-> "absent", value |-> Undefined]
Visibility(dep, cond, val) == [dependsOn |-> dep, condition |-> cond, value |-> val]

\* BaseField.dynamicOptions: the field's options come from `endpoint`, asked
\* with the value of the field `dependsOn`.
NoDynamicOptions == [dependsOn |-> "", endpoint |-> "", method |-> ""]
DynamicOptions(dep, endpoint, method) ==
    [dependsOn |-> dep, endpoint |-> endpoint, method |-> method]

SimpleField(id, type, required, options, visibility) ==
    [id |-> id, type |-> type, required |-> required, options |-> options,
     visibility |-> visibility, dynamicOptions |-> NoDynamicOptions,
     fields |-> << >>]

GroupField(id, fields) ==
    [id |-> id, type |-> "group", required |-> FALSE, options |-> << >>,
     visibility |-> NoVisibility, dynamicOptions |-> NoDynamicOptions,
     fields |-> fields]

\* A simple field that declares dynamicOptions.
withDynamicOptions(field, dynamicOptions) ==
    [field EXCEPT !.dynamicOptions = dynamicOptions]

isGroup(item) == item.type = "group"

FieldCountry == SimpleField("country", "select", TRUE, <<"US", "CA">>, NoVisibility)
FieldState ==
    withDynamicOptions(SimpleField("state", "select", TRUE, << >>, NoVisibility),
                       DynamicOptions("country", "/getStates", "GET"))
FieldSmoker == SimpleField("smoker", "radio", FALSE, <<"Yes", "No">>, NoVisibility)
FieldDiscount ==
    SimpleField("discount", "text", TRUE, << >>,
                Visibility("smoker", "equals", Str("Yes")))
FieldRooms == SimpleField("rooms", "number", TRUE, << >>, NoVisibility)
FieldStartDate == SimpleField("startDate", "date", TRUE, << >>, NoVisibility)

\* Fields of a form that exercises the form interpreter: a select whose
\* options depend on a field other than country, a not_equals rule, an
\* equals rule on the answer of a number field (Visibility.value is a
\* string), a country that is not required and a state with a visibility
\* rule of its own.
FieldPlan ==
    withDynamicOptions(SimpleField("plan", "select", FALSE, << >>, NoVisibility),
                       DynamicOptions("smoker", "/getPlans", "GET"))
FieldWaiver ==
    SimpleField("waiver", "text", FALSE, << >>,
                Visibility("smoker", "not_equals", Str("Yes")))
FieldSurcharge ==
    SimpleField("surcharge", "text", FALSE, << >>,
                Visibility("rooms", "equals", Str("3")))
\* A rule with a condition the evaluator does not know, and a rule that
\* depends on a field no form has.
FieldTerms ==
    SimpleField("terms", "checkbox", FALSE, <<"Accepted">>,
                Visibility("smoker", "contains", Str("Yes")))
FieldLoyalty ==
    SimpleField("loyalty", "text", FALSE, << >>,
                Visibility("memberId", "equals", Str("Yes")))
FieldCountryOptional ==
    SimpleField("country", "select", FALSE, <<"US">>, NoVisibility)
FieldStateUnlessSmoker ==
    withDynamicOptions(
        SimpleField("state", "select", TRUE, << >>,
                    Visibility("smoker", "not_equals", Str("Yes"))),
        DynamicOptions("country", "/getStates", "GET"))

\* The form definitions GET /insurance/forms answers with.
FormIds == {"health_v1", "home_v1"}

\* The form definition of a second catalogue.
SchemaFormIds == {"travel_v1"}

FormDefinition(formId) ==
    IF formId = "health_v1"
    THEN [formId |-> formId, title |-> "Health",
          fields |-> << GroupField("applicant",
                                   <<FieldCountry, FieldState, FieldSmoker>>),
                        FieldDiscount >>]
    ELSE IF formId = "travel_v1"
    THEN [formId |-> formId, title |-> "Travel",
          fields |-> << FieldCountryOptional,
                        GroupField("residence",
                                   <<FieldStateUnlessSmoker, FieldSurcharge,
                                     FieldLoyalty>>),
                        GroupField("household",
                                   <<FieldSmoker, FieldRooms, FieldWaiver,
                                     FieldPlan, FieldTerms>>) >>]
    ELSE [formId |-> formId, title |-> "Home",
          fields |-> << FieldRooms, FieldStartDate >>]

FieldIds ==
    {"country", "state", "smoker", "discount", "rooms", "startDate",
     "plan", "waiver", "surcharge", "terms", "loyalty"}

\* What GET /getStates?country=c answers with when it answers with an array.
StatesOf(country) ==
    IF country = "US" THEN <<"NY">>
    ELSE IF country = "CA" THEN <<"ON">>
    ELSE << >>

Range(s) == {s[i] : i \in DOMAIN s}

\* ------------------------------------------------------- visibility, render

\* All simple fields of a field list, the members of a group in its place
\* (onFinish, lines 261-268).
RECURSIVE allSimpleFields(_)
allSimpleFields(items) ==
    IF items = << >> THEN << >>
    ELSE (IF isGroup(Head(items)) THEN Head(items).fields ELSE <<Head(items)>>)
         \o allSimpleFields(Tail(items))

\* The evaluator with == in the place of ===: a number and a string with the
\* same digits are equal.
shouldShowFieldLoose(field, values) ==
    IF field.visibility = NoVisibility THEN TRUE
    ELSE LET dependsValue ==
                 IF field.visibility.dependsOn \in DOMAIN values
                 THEN values[field.visibility.dependsOn]
                 ELSE Undefined
         IN  IF field.visibility.condition = "equals"
             THEN dependsValue.v = field.visibility.value.v
             ELSE IF field.visibility.condition = "not_equals"
             THEN dependsValue.v # field.visibility.value.v
             ELSE TRUE

\* The evaluator that hides a field whose condition it does not know.
shouldShowFieldFailClosed(field, values) ==
    IF field.visibility = NoVisibility THEN TRUE
    ELSE LET dependsValue ==
                 IF field.visibility.dependsOn \in DOMAIN values
                 THEN values[field.visibility.dependsOn]
                 ELSE Undefined
         IN  IF field.visibility.condition = "equals"
             THEN dependsValue = field.visibility.value
             ELSE IF field.visibility.condition = "not_equals"
             THEN dependsValue # field.visibility.value
             ELSE FALSE

\* The evaluator with a not_equals rule that wants an answer to compare:
\* dependsValue && dependsValue !== value.
shouldShowFieldNeedsAnswer(field, values) ==
    IF field.visibility = NoVisibility THEN TRUE
    ELSE LET dependsValue ==
                 IF field.visibility.dependsOn \in DOMAIN values
                 THEN values[field.visibility.dependsOn]
                 ELSE Undefined
         IN  IF field.visibility.condition = "equals"
             THEN dependsValue = field.visibility.value
             ELSE IF field.visibility.condition = "not_equals"
             THEN dependsValue # Undefined /\ dependsValue # field.visibility.value
             ELSE TRUE

shouldShowField(field, values) ==
    IF field.visibility = NoVisibility THEN TRUE
    ELSE LET dependsValue ==
                 IF field.visibility.dependsOn \in DOMAIN values
                 THEN values[field.visibility.dependsOn]
                 ELSE Undefined
         IN  IF field.visibility.condition = "equals"
             THEN dependsValue = field.visibility.value
             ELSE IF field.visibility.condition = "not_equals"
             THEN dependsValue # field.visibility.value
             ELSE TRUE

KnownTypes == {"text", "number", "date", "select", "radio", "checkbox"}

\* FieldRenderer without its rule for state.
FieldRendererNoCountryRule(field, vals) == field.type \in KnownTypes

\* Whether FieldRenderer returns a Form.Item for the field (and not null),
\* vals being formInstance.getFieldsValue().
FieldRenderer(field, vals) ==
    IF field.id = "country" THEN TRUE
    ELSE IF field.id = "state" THEN ~Falsy(vals["country"])
    ELSE field.type \in KnownTypes

\* The store as getFieldsValue() returns it: the values of the mounted fields.
getFieldsValue(mounted, st) ==
    [k \in FieldIds |-> IF k \in mounted THEN st[k] ELSE Undefined]

\* One render of the form's items (lines 373-424) with the fields `mounted`
\* registered: the ids of the simple fields that get a Form.Item.
RenderPass(items, st, mounted) ==
    LET formValues == getFieldsValue(mounted, st)
        simple == allSimpleFields(items)
    IN  { simple[i].id : i \in
            { j \in DOMAIN simple :
                /\ shouldShowField(simple[j], formValues)
                /\ FieldRenderer(simple[j], formValues) } }

\* The fields mounted once rendering has settled: a mounted field notifies the
\* watchers, which renders the page again.
RECURSIVE RenderLoop(_, _, _, _)
RenderLoop(items, st, mounted, n) ==
    LET next == RenderPass(items, st, mounted)
    IN  IF n = 0 \/ next = mounted THEN mounted
        ELSE RenderLoop(items, st, next, n - 1)

Mounted(items, st) == RenderLoop(items, st, {}, Len(allSimpleFields(items)) + 1)

\* The top-level items that are rendered, each inside a SortableItem
\* (lines 373-424), formValues being Form.useWatch([], form).
RenderedItems(items, formValues) ==
    { items[i].id : i \in
        { j \in DOMAIN items :
            IF isGroup(items[j])
            THEN \E k \in DOMAIN items[j].fields :
                     shouldShowField(items[j].fields[k], formValues)
            ELSE shouldShowField(items[j], formValues) } }

\* ------------------------------------------------------------ draft store

\* toJSON: a Dayjs object is written as its ISO string.
ToJSON(x) == IF x.t = "dayjs" THEN Str(x.v) ELSE x

\* JSON.stringify of a values object: properties that are undefined are left
\* out.  The document is kept as the mapping JSON.parse reads back from it.
JSONstringify(values) ==
    [k \in {f \in DOMAIN values : values[f] # Undefined} |-> ToJSON(values[k])]

JSONparse(doc) == doc

draftKey(formId) == "draft_" \o formId

\* form.setFieldsValue: the given properties overwrite the store, the others
\* are kept.
setFieldsValue(st, values) ==
    [k \in FieldIds |-> IF k \in DOMAIN values THEN values[k] ELSE st[k]]

\* form.resetFields(): no field has an initial value.
resetFields == [k \in FieldIds |-> Undefined]

\* The draft-restore effect (lines 300-311) on the store `st`.
RestoreDraft(storage, formId, st) ==
    IF draftKey(formId) \in DOMAIN storage
    THEN setFieldsValue(st, JSONparse(storage[draftKey(formId)]))
    ELSE st

setItem(storage, key, doc) ==
    [k \in DOMAIN storage \cup {key} |-> IF k = key THEN doc ELSE storage[k]]

\* localStorage.clear()
ClearedStorage == [k \in {} |-> JSONstringify(resetFields)]

\* ------------------------------------------------------------- field order

RemoveAt(s, i) == SubSeq(s, 1, i - 1) \o SubSeq(s, i + 1, Len(s))
InsertAt(s, i, x) == SubSeq(s, 1, i - 1) \o <<x>> \o SubSeq(s, i, Len(s))

\* The two items change places and the items between them stay.
arraySwap(s, from, to) ==
    [k \in DOMAIN s |-> IF k = from THEN s[to] ELSE IF k = to THEN s[from] ELSE s[k]]

\* The dragged item is written over the item it is dropped on.
arrayOverwrite(s, from, to) == [s EXCEPT ![to] = s[from]]

\* arrayMove of @dnd-kit/sortable, positions counted from 1.
arrayMove(s, from, to) == InsertAt(RemoveAt(s, from), to, s[from])

\* findIndex: the position of the item with the id, 0 when there is none.
findIndex(items, id) ==
    IF \E i \in DOMAIN items : items[i].id = id
    THEN CHOOSE i \in DOMAIN items :
             /\ items[i].id = id
             /\ \A j \in DOMAIN items : items[j].id = id => i <= j
    ELSE 0

\* ------------------------------------------------------------------ state

VARIABLES
    phase,          \* "mounting", "loading", "failed", "ready" or "submitted"
    storage,        \* localStorage: key -> JSON document
    selectedForm,   \* the selected FormStructure, NoForm for null
    store,          \* the antd form store (the AnswerSet): field id -> value
    dynamicOptions, \* Record<string, string[]>, written for "state" only
    submitting,     \* the submitting flag
    submitCall,     \* the submitFormData call that has not settled yet
    pending,        \* onValuesChange calls suspended in handleCountryChange
    mounted,        \* the fields registered with the form (their Form.Item is rendered)
    fieldErrors,    \* the fields onFinish marked with form.setFields
    notification,   \* the last message.success / message.error
    expected,       \* history: outcome of the most recently triggered resolver run
    restoredBy,     \* history: what made the restore effect apply a draft last
    changes         \* history: the answer changes made since the page load

vars == <<phase, storage, selectedForm, store, dynamicOptions, submitting,
          submitCall, pending, mounted, fieldErrors, notification, expected,
          restoredBy, changes>>

NoForm == [formId |-> "", title |-> "", fields |-> << >>]
NoCall == [outstanding |-> FALSE, payload |-> resetFields]
NoOptions == [k \in {} |-> << >>]
NothingExpected == [status |-> "none", options |-> << >>]

\* A draft a session before this page load left in localStorage.
PreviousSessionDraft ==
    JSONstringify(setFieldsValue(resetFields,
        [k \in {"smoker", "discount"} |->
            IF k = "smoker" THEN Str("Yes") ELSE Str("5")]))

PreviousSessionStorages ==
    { ClearedStorage,
      setItem(ClearedStorage, draftKey("health_v1"), PreviousSessionDraft) }

Init ==
    /\ phase = "mounting"
    /\ storage \in PreviousSessionStorages
    /\ selectedForm = NoForm
    /\ store = resetFields
    /\ dynamicOptions = NoOptions
    /\ submitting = FALSE
    /\ submitCall = NoCall
    /\ pending = << >>
    /\ mounted = {}
    /\ fieldErrors = {}
    /\ notification = "none"
    /\ expected = NothingExpected
    /\ restoredBy = "none"
    /\ changes = 0

\* ---------------------------------------------------------------- actions

\* Mount without the clearing effect: the drafts of the session before stay.
MountKeepsDrafts ==
    /\ phase = "mounting"
    /\ phase' = "loading"
    /\ UNCHANGED <<storage, selectedForm, store, dynamicOptions, submitting,
                   submitCall, pending, mounted, fieldErrors, notification,
                   expected, restoredBy, changes>>

\* The mount effect (lines 171-174): localStorage.clear().
Mount ==
    /\ phase = "mounting"
    /\ phase' = "loading"
    /\ storage' = ClearedStorage
    /\ UNCHANGED <<selectedForm, store, dynamicOptions, submitting, submitCall,
                   pending, mounted, fieldErrors, notification, expected,
                   restoredBy, changes>>

\* useQuery(getDynamicForm) settles (lines 177-180, 328-336): with the forms,
\* which renders the form Select, or with an error, which renders a message.
FormsLoaded ==
    /\ phase = "loading"
    /\ phase' = "ready"
    /\ UNCHANGED <<storage, selectedForm, store, dynamicOptions, submitting,
                   submitCall, pending, mounted, fieldErrors, notification,
                   expected, restoredBy, changes>>

FormsFailed ==
    /\ phase = "loading"
    /\ phase' = "failed"
    /\ UNCHANGED <<storage, selectedForm, store, dynamicOptions, submitting,
                   submitCall, pending, mounted, fieldErrors, notification,
                   expected, restoredBy, changes>>

\* A newer change of country supersedes the resolver runs still suspended.
Superseded(reqs) == [i \in DOMAIN reqs |-> [reqs[i] EXCEPT !.latest = FALSE]]

\* The runs suspended when another form is selected belong to the form left.
Foreign(reqs) ==
    [i \in DOMAIN reqs |-> [reqs[i] EXCEPT !.latest = FALSE, !.current = FALSE]]

\* The store after the form Select's onChange (form.resetFields(), line 348)
\* and the draft-restore effect (lines 300-311) that the new selectedForm runs.
storeOnSelect(st, formId) == RestoreDraft(st, formId, resetFields)

\* The cache after the form Select's onChange: setDynamicOptions({}), line 349.
optionsOnSelect(prev) == NoOptions

\* The form Select's onChange (lines 345-350) with the effect it runs.
SelectForm(formId) ==
    /\ phase = "ready"
    /\ formId # selectedForm.formId
    /\ selectedForm' = FormDefinition(formId)
    /\ store' = storeOnSelect(storage, formId)
    /\ mounted' = Mounted(selectedForm'.fields, store')
    /\ dynamicOptions' = optionsOnSelect(dynamicOptions)
    /\ fieldErrors' = {}
    /\ pending' = Foreign(pending)
    /\ expected' = NothingExpected
    /\ restoredBy' = IF draftKey(formId) \in DOMAIN storage
                     THEN "selection" ELSE "none"
    /\ UNCHANGED <<phase, storage, submitting, submitCall, notification, changes>>

\* What the user can enter into a rendered field (FieldRenderer, lines
\* 461-555): a Select offers "" and its options, the state Select offers
\* dynamicOptions.state || field.options || [].
TextInputs == {Str("10")}
NumberInputs == {Num("0"), Num("3")}
DateInputs == {Dayjs("2025-01-01")}

InputChoices(field, dynOpts) ==
    IF field.id = "state"
    THEN {Str("")} \cup
         {Str(o) : o \in Range(IF "state" \in DOMAIN dynOpts
                               THEN dynOpts["state"] ELSE field.options)}
    ELSE IF field.type = "select"
    THEN {Str("")} \cup {Str(o) : o \in Range(field.options)}
    ELSE IF field.type = "radio" THEN {Str(o) : o \in Range(field.options)}
    ELSE IF field.type = "text" THEN TextInputs
    ELSE IF field.type = "number" THEN NumberInputs
    ELSE IF field.type = "date" THEN DateInputs
    ELSE {}

\* setDynamicOptions((prev) => ({ ...prev, state: options }))
setStateOptions(prev, options) ==
    [k \in DOMAIN prev \cup {"state"} |->
        IF k = "state" THEN options ELSE prev[k]]

\* localStorage.setItem(`draft_${selectedForm.formId}`, JSON.stringify(allValues))
saveDraft(st, formId, allValues) ==
    setItem(st, draftKey(formId), JSONstringify(allValues))

\* onValuesChange (lines 237-251) for the user's change of one rendered field,
\* up to the await of api.get in handleCountryChange (line 221) when there is
\* one.  allValues holds the fields mounted when the change is made.
onValuesChange(field, val) ==
    LET changedKey == field.id
        newStore == [store EXCEPT ![changedKey] = val]
        allValues == getFieldsValue(mounted, newStore)
    IN  /\ phase = "ready"
        /\ selectedForm # NoForm
        /\ changes < MaxChanges
        /\ changedKey \in mounted
        /\ val # store[changedKey]
        /\ val \in InputChoices(field, dynamicOptions)
        /\ changes' = changes + 1
        /\ store' = newStore
        /\ mounted' = Mounted(selectedForm.fields, newStore)
        /\ fieldErrors' = fieldErrors \ {changedKey}
        /\ IF changedKey = "country"
           THEN IF Falsy(val)
                THEN /\ dynamicOptions' = setStateOptions(dynamicOptions, << >>)
                     /\ storage' = saveDraft(storage, selectedForm.formId, allValues)
                     /\ pending' = Superseded(pending)
                     /\ expected' = [status |-> "reset", options |-> << >>]
                ELSE /\ Len(pending) < MaxPending
                     /\ pending' = Append(Superseded(pending),
                                      [val |-> val,
                                       endpoint |-> "/getStates",
                                       formId |-> selectedForm.formId,
                                       allValues |-> allValues,
                                       latest |-> TRUE,
                                       current |-> TRUE])
                     /\ expected' = [status |-> "pending", options |-> << >>]
                     /\ UNCHANGED <<dynamicOptions, storage>>
           ELSE /\ storage' = saveDraft(storage, selectedForm.formId, allValues)
                /\ UNCHANGED <<dynamicOptions, pending, expected>>
        /\ UNCHANGED <<phase, selectedForm, submitting, submitCall,
                       notification, restoredBy>>

\* How GET /getStates can settle: with an array of states, with a body whose
\* states is no array, or with an error.
FetchOutcomes == {"array", "notArray", "error"}

FetchedOptions(req, outcome) ==
    IF outcome = "array" THEN StatesOf(req.val.v) ELSE << >>

\* The cache after a response arrived, with a catch block that leaves the
\* cache as it is.
applyResponseKeepsOnError(prev, req, outcome) ==
    IF outcome = "error" THEN prev
    ELSE [k \in DOMAIN prev \cup {"state"} |->
             IF k = "state"
             THEN (IF outcome = "array" THEN StatesOf(req.val.v) ELSE << >>)
             ELSE prev[k]]

\* The cache after a response arrived (lines 222-229).
applyResponse(prev, req, outcome) ==
    setStateOptions(prev, FetchedOptions(req, outcome))

\* The draft store after the suspended onValuesChange went on (lines 248-250).
saveAfterFetch(st, req) == saveDraft(st, req.formId, req.allValues)

\* api.get settles for the i-th suspended call: the rest of handleCountryChange
\* (lines 222-229), then the rest of onValuesChange (lines 248-250) with the
\* selectedForm and allValues of the call.  After navigate() the page is
\* unmounted and only localStorage is still written.
ResolveFetch(i, outcome) ==
    LET req == pending[i]
    IN  /\ phase \in {"ready", "submitted"}
        /\ dynamicOptions' = IF phase = "ready"
                             THEN applyResponse(dynamicOptions, req, outcome)
                             ELSE dynamicOptions
        /\ storage' = saveAfterFetch(storage, req)
        /\ pending' = RemoveAt(pending, i)
        /\ expected' = IF req.latest
                       THEN [status |-> "done",
                             options |-> FetchedOptions(req, outcome)]
                       ELSE expected
        /\ UNCHANGED <<phase, selectedForm, store, submitting, submitCall,
                       mounted, fieldErrors, notification, restoredBy, changes>>

\* The fields of the store that a restore changes lose their error.
ChangedKeys(st, newSt) == {k \in FieldIds : st[k] # newSt[k]}

NoTarget == ""

\* The order after a drag from `active` onto `over` (lines 317-324).
movedFields(items, active, over) ==
    LET oldIndex == findIndex(items, active)
        newIndex == findIndex(items, over)
    IN  IF over = NoTarget \/ active = over \/ oldIndex < 1 \/ newIndex < 1
        THEN items
        ELSE arrayMove(items, oldIndex, newIndex)

\* What the draft-restore effect does to the store when handleDragEnd has
\* replaced selectedForm (effect dependencies, line 311).
restoreAfterDrag(st, formId, current) == RestoreDraft(st, formId, current)

\* handleDragEnd (lines 316-326) for a drag of a rendered item onto a
\* rendered item or onto nothing, and, when it replaced selectedForm, the
\* draft-restore effect (lines 300-311), which depends on selectedForm.
handleDragEnd(active, over) ==
    LET items == selectedForm.fields
        newStore == restoreAfterDrag(storage, selectedForm.formId, store)
    IN  /\ phase = "ready"
        /\ selectedForm # NoForm
        /\ IF over = NoTarget \/ active = over
           THEN UNCHANGED <<selectedForm, store, mounted, fieldErrors, restoredBy>>
           ELSE /\ selectedForm' =
                       [selectedForm EXCEPT !.fields = movedFields(items, active, over)]
                /\ store' = newStore
                /\ mounted' = IF newStore = store THEN mounted
                              ELSE Mounted(items, newStore)
                /\ fieldErrors' = fieldErrors \ ChangedKeys(store, newStore)
                /\ restoredBy' = IF draftKey(selectedForm.formId) \in DOMAIN storage
                                 THEN "reorder" ELSE restoredBy
        /\ UNCHANGED <<phase, storage, dynamicOptions, submitting, submitCall,
                       pending, notification, expected, changes>>

\* The fields onFinish finds missing (lines 260-276).
missingFields(items, formValues) ==
    LET simple == allSimpleFields(items)
    IN  { simple[i].id : i \in
            { j \in DOMAIN simple :
                /\ simple[j].required
                /\ shouldShowField(simple[j], formValues)
                /\ Falsy(formValues[simple[j].id]) } }

\* onFinish (lines 257-295) up to the await of submitFormData.  The form
\* hands it the values of the registered fields; the required test reads the
\* watched values of the same fields (line 186).
onFinish ==
    LET values == getFieldsValue(mounted, store)
        missing == missingFields(selectedForm.fields, values)
    IN  /\ selectedForm # NoForm
        /\ fieldErrors' = missing
        /\ IF missing # {}
           THEN UNCHANGED <<submitting, submitCall>>
           ELSE /\ submitting' = TRUE
                /\ submitCall' = [outstanding |-> TRUE, payload |-> values]
        /\ UNCHANGED <<phase, storage, selectedForm, store, dynamicOptions,
                       pending, mounted, notification, expected, restoredBy,
                       changes>>

\* The rule { required: true } that FieldRenderer gives the Form.Item of a
\* required field (line 457) rejects undefined and the empty string; the
\* number 0 and a date pass it.
requiredRuleFails(x) == x = Undefined \/ x = Str("")

\* The registered fields whose rules reject their value.
validateFields(items, registered, st) ==
    LET simple == allSimpleFields(items)
    IN  { simple[i].id : i \in
            { j \in DOMAIN simple :
                /\ simple[j].id \in registered
                /\ simple[j].required
                /\ requiredRuleFails(st[simple[j].id]) } }

\* A click on a submit button that does not show loading while a submission
\* is in flight.
SubmitWhileLoading ==
    LET invalid == validateFields(selectedForm.fields, mounted, store)
    IN  /\ phase = "ready"
        /\ selectedForm # NoForm
        /\ IF invalid # {}
           THEN /\ fieldErrors' = invalid
                /\ UNCHANGED <<phase, storage, selectedForm, store,
                               dynamicOptions, submitting, submitCall, pending,
                               mounted, notification, expected, restoredBy,
                               changes>>
           ELSE onFinish

\* A click on the submit button (lines 427-431), which is disabled while it
\* shows loading.  The form validates the rules of its registered fields and
\* marks the fields that fail; it calls onFinish (line 364) only when none
\* fails.
Submit ==
    LET invalid == validateFields(selectedForm.fields, mounted, store)
    IN  /\ phase = "ready"
        /\ selectedForm # NoForm
        /\ ~submitting
        /\ IF invalid # {}
           THEN /\ fieldErrors' = invalid
                /\ UNCHANGED <<phase, storage, selectedForm, store,
                               dynamicOptions, submitting, submitCall, pending,
                               mounted, notification, expected, restoredBy,
                               changes>>
           ELSE onFinish

\* submitFormData resolved (lines 288-289, 293): message.success and
\* navigate("/submissions"), which unmounts the page.
SubmitResolved ==
    /\ submitCall.outstanding
    /\ notification' = "success"
    /\ phase' = "submitted"
    /\ submitting' = FALSE
    /\ submitCall' = NoCall
    /\ UNCHANGED <<storage, selectedForm, store, dynamicOptions, pending,
                   mounted, fieldErrors, expected, restoredBy, changes>>

\* The rejection handled without the finally block: the flag stays set.
SubmitRejectedKeepsFlag ==
    /\ submitCall.outstanding
    /\ notification' = "error"
    /\ submitCall' = NoCall
    /\ UNCHANGED <<phase, storage, selectedForm, store, dynamicOptions, pending,
                   mounted, fieldErrors, expected, restoredBy, changes,
                   submitting>>

\* The rejection handled by starting over: the form and its draft are dropped.
SubmitRejectedDropsAnswers ==
    /\ submitCall.outstanding
    /\ notification' = "error"
    /\ submitting' = FALSE
    /\ submitCall' = NoCall
    /\ store' = resetFields
    /\ mounted' = Mounted(selectedForm.fields, resetFields)
    /\ storage' = [k \in DOMAIN storage \ {draftKey(selectedForm.formId)} |->
                      storage[k]]
    /\ UNCHANGED <<phase, selectedForm, dynamicOptions, pending,
                   fieldErrors, expected, restoredBy, changes>>

\* submitFormData rejected (lines 290-293): message.error.
SubmitRejected ==
    /\ submitCall.outstanding
    /\ notification' = "error"
    /\ submitting' = FALSE
    /\ submitCall' = NoCall
    /\ UNCHANGED <<phase, storage, selectedForm, store, dynamicOptions, pending,
                   mounted, fieldErrors, expected, restoredBy, changes>>

UserInputs ==
    TextInputs \cup NumberInputs \cup DateInputs
    \cup {Str(s) : s \in {"", "US", "CA", "NY", "ON", "Yes", "No"}}

\* The user changes the answer of a field of the selected form.
AnswerChange ==
    \E i \in DOMAIN allSimpleFields(selectedForm.fields) :
       \E val \in UserInputs :
          onValuesChange(allSimpleFields(selectedForm.fields)[i], val)

\* One of the option fetches in flight settles.
FetchSettles ==
    \E i \in DOMAIN pending : \E outcome \in FetchOutcomes :
       ResolveFetch(i, outcome)

\* The user drops a rendered item onto another one, onto itself or nowhere.
DragEnd ==
    \E active \in RenderedItems(selectedForm.fields, getFieldsValue(mounted, store)) :
       \E over \in RenderedItems(selectedForm.fields, getFieldsValue(mounted, store))
                   \cup {NoTarget} :
          handleDragEnd(active, over)

Next ==
    \/ Mount
    \/ FormsLoaded
    \/ FormsFailed
    \/ \E formId \in FormIds : SelectForm(formId)
    \/ AnswerChange
    \/ FetchSettles
    \/ DragEnd
    \/ Submit
    \/ SubmitResolved
    \/ SubmitRejected

Spec == Init /\ [][Next]_vars

\* The page with the form of the second catalogue.
SchemaNext ==
    \/ Mount
    \/ FormsLoaded
    \/ FormsFailed
    \/ \E formId \in SchemaFormIds : SelectForm(formId)
    \/ AnswerChange
    \/ FetchSettles
    \/ DragEnd
    \/ Submit
    \/ SubmitResolved
    \/ SubmitRejected

SchemaSpec == Init /\ [][SchemaNext]_vars

\* A request to the server settles: the submit call is answered or fails.
LiveSpec == Spec /\ WF_vars(SubmitResolved \/ SubmitRejected)

\* ---------------------------------------------------------------- claims

\* The draft stored for the selected form, as JSON.parse reads it; the empty
\* document when there is none.
StoredDraft ==
    IF draftKey(selectedForm.formId) \in DOMAIN storage
    THEN storage[draftKey(selectedForm.formId)]
    ELSE JSONstringify(resetFields)

\* The fields of the selected form that are required, visible per
\* shouldShowField on the AnswerSet, and hold no answer.
RequiredVisibleEmpty ==
    LET simple == allSimpleFields(selectedForm.fields)
    IN  { simple[i].id : i \in
            { j \in DOMAIN simple :
                /\ simple[j].required
                /\ shouldShowField(simple[j], store)
                /\ IsEmptyValue(store[simple[j].id]) } }

\* C1: once every option fetch has resolved, the cached options of state are
\* the result of the most recently triggered change of country, whatever the
\* order in which the responses arrived.
C1_LatestFetchWins ==
    (phase = "ready" /\ pending = << >> /\ expected.status = "done")
        => /\ "state" \in DOMAIN dynamicOptions
           /\ dynamicOptions["state"] = expected.options

\* C2: a submit attempt with a required, visible and empty field does not
\* call submitFormData, does not set submitting, and marks exactly the
\* required, visible and empty fields.
C2_SubmitBlocked ==
    [][(Submit /\ RequiredVisibleEmpty # {})
          => /\ ~submitting'
             /\ ~submitCall'.outstanding
             /\ fieldErrors' = RequiredVisibleEmpty]_vars

\* C3: a submit attempt with every required and visible field answered sets
\* submitting and calls submitFormData, hidden required fields being empty
\* or not.
C3_SubmitProceeds ==
    [][(Submit /\ RequiredVisibleEmpty = {})
          => /\ submitting'
             /\ submitCall'.outstanding]_vars

\* C4: a submission that is in flight settles, and when it does the
\* submitting flag is cleared and either success is notified and the page
\* hands over to the submissions view, or failure is notified and the form
\* awaits input again.
C4_SubmitSettles ==
    /\ [][(submitCall.outstanding /\ ~submitCall'.outstanding)
            => /\ ~submitting'
               /\ \/ notification' = "success" /\ phase' = "submitted"
                  \/ notification' = "error" /\ phase' = "ready"]_vars
    /\ (submitting ~> ~submitting)

C4_Witness ==
    /\ phase = "ready"
    /\ notification = "error"
    /\ ~submitting
    /\ ~submitCall.outstanding

\* C5: the step that handles a failed submission changes neither the
\* AnswerSet nor the stored drafts, and neither does the submit attempt, so
\* the values a resubmission sends are those of the store as it is.
C5_FailureKeepsAnswers ==
    [][((submitCall.outstanding /\ ~submitCall'.outstanding /\ notification' = "error")
         \/ (~submitCall.outstanding /\ submitCall'.outstanding))
          => /\ store' = store
             /\ storage' = storage
             /\ mounted' = mounted
             /\ (submitCall'.outstanding
                   => submitCall'.payload = getFieldsValue(mounted', store'))]_vars

C5_Witness ==
    /\ phase = "ready"
    /\ notification = "error"
    /\ ~submitting
    /\ store # resetFields
    /\ StoredDraft = JSONstringify(store)
    /\ StoredDraft # JSONstringify(resetFields)

\* C6: whenever no option fetch is in flight the draft stored for the
\* selected form is the current AnswerSet.
C6_DraftIsCurrent ==
    (phase = "ready" /\ selectedForm # NoForm /\ pending = << >>)
        => StoredDraft = JSONstringify(store)

\* C7: selecting a form leaves the AnswerSet empty when the form has no draft
\* and equal to the draft otherwise, and a draft that is saved reads back as
\* the answers it was saved from.
C7_RestoreRoundTrip ==
    /\ [][(selectedForm'.formId # selectedForm.formId)
            => store' = IF draftKey(selectedForm'.formId) \in DOMAIN storage
                        THEN setFieldsValue(resetFields,
                                 storage[draftKey(selectedForm'.formId)])
                        ELSE resetFields]_vars
    /\ [][(changes' # changes /\ storage' # storage)
            => RestoreDraft(storage', selectedForm.formId, resetFields)
                 = getFieldsValue(mounted, store')]_vars

\* C8: a stored draft is applied to the AnswerSet by the restore that follows
\* the selection of a form and by no later event on that form.
C8_RestoreOnlyOnSelection == restoredBy \in {"none", "selection"}

\* C9: localStorage is cleared before a form can be selected, and no draft
\* of a session before is read into the AnswerSet.
C9_SessionReset ==
    /\ phase = "mounting" => (selectedForm = NoForm /\ store = resetFields)
    /\ phase = "loading" => storage = ClearedStorage
    /\ phase # "mounting" =>
          \A k \in DOMAIN storage : storage[k] # PreviousSessionDraft
    /\ \A k \in FieldIds : store[k] # PreviousSessionDraft["discount"]

C9_Witness ==
    /\ phase = "ready"
    /\ selectedForm.formId = "health_v1"
    /\ restoredBy = "none"
    /\ changes = 0
    /\ store = resetFields
    /\ storage = ClearedStorage

\* C10: the response to a fetch issued before the form was switched does
\* not change the cache of the form selected now.
C10_ForeignResponseDropped ==
    [][\A i \in DOMAIN pending :
          (phase = "ready" /\ pending' = RemoveAt(pending, i) /\ ~pending[i].current)
             => dynamicOptions' = dynamicOptions]_vars

\* The simple fields of the selected form whose visibility rule has the
\* condition.
FieldsWithCondition(condition) ==
    { f \in Range(allSimpleFields(selectedForm.fields)) :
        f.visibility.condition = condition }

\* a === b: the same type and the same value.
StrictEquals(a, b) == a.t = b.t /\ a.v = b.v

\* The answer of a field in an AnswerSet, undefined when it has none.
Answer(answers, id) == IF id \in DOMAIN answers THEN answers[id] ELSE Undefined

\* The AnswerSet with the answer of one field replaced, or absent.
WithAnswer(answers, id, v) ==
    [k \in DOMAIN answers \cup {id} |-> IF k = id THEN v ELSE answers[k]]
WithoutAnswer(answers, id) == [k \in DOMAIN answers \ {id} |-> answers[k]]

\* The values a dependency is tried with: what a user can enter, no answer,
\* and the value the rule names.
TriedValues(f) == UserInputs \cup {Undefined, f.visibility.value}

\* C11: a field with an equals rule is shown exactly when the answer of the
\* field it depends on is strictly equal to the value of the rule -- for the
\* AnswerSet of every reachable state, for the values the page evaluates the
\* rule on, and for every value of the dependency, no answer and an answer of
\* another type included -- and it is rendered only then.
C11_EqualsRule ==
    \A f \in FieldsWithCondition("equals") :
       LET dep == f.visibility.dependsOn
           watched == getFieldsValue(mounted, store)
       IN  /\ shouldShowField(f, store)
                 <=> StrictEquals(Answer(store, dep), f.visibility.value)
           /\ shouldShowField(f, watched)
                 <=> StrictEquals(Answer(watched, dep), f.visibility.value)
           /\ \A v \in TriedValues(f) :
                 shouldShowField(f, WithAnswer(store, dep, v))
                    <=> StrictEquals(v, f.visibility.value)
           /\ ~shouldShowField(f, WithoutAnswer(store, dep))
           /\ f.id \in mounted => StrictEquals(Answer(store, dep), f.visibility.value)

\* The number 3 is the answer the rule of surcharge depends on, the rule
\* names the string "3", and surcharge is not rendered.
C11_Witness ==
    /\ phase = "ready"
    /\ FieldSurcharge \in FieldsWithCondition("equals")
    /\ store["rooms"] = Num("3")
    /\ FieldSurcharge.visibility.value = Str("3")
    /\ "surcharge" \notin mounted

\* The same field with the condition of its rule replaced.
WithCondition(f, condition) == [f EXCEPT !.visibility.condition = condition]

\* C12: a field with a not_equals rule is shown exactly when the same rule
\* with equals would hide it: when the answer of the field it depends on
\* differs from the value of the rule, no answer included.
C12_NotEqualsRule ==
    \A f \in FieldsWithCondition("not_equals") :
       LET dep == f.visibility.dependsOn
           watched == getFieldsValue(mounted, store)
       IN  /\ shouldShowField(f, store)
                 <=> ~shouldShowField(WithCondition(f, "equals"), store)
           /\ shouldShowField(f, watched)
                 <=> ~StrictEquals(Answer(watched, dep), f.visibility.value)
           /\ \A v \in TriedValues(f) :
                 shouldShowField(f, WithAnswer(store, dep, v))
                    <=> ~StrictEquals(v, f.visibility.value)
           /\ shouldShowField(f, WithoutAnswer(store, dep))
           /\ f.id \in mounted => ~StrictEquals(Answer(store, dep), f.visibility.value)

\* smoker has no answer and waiver, shown unless smoker is "Yes", is rendered
\* and answered.
C12_Witness ==
    /\ phase = "ready"
    /\ FieldWaiver \in FieldsWithCondition("not_equals")
    /\ store["smoker"] = Undefined
    /\ "waiver" \in mounted
    /\ store["waiver"] # Undefined

\* The groups among the top-level items of the selected form.
Groups == { g \in Range(selectedForm.fields) : isGroup(g) }

\* The members of a group whose Form.Item is rendered.
RenderedMembers(g) == { m \in Range(g.fields) : m.id \in mounted }

\* C13: a group is rendered exactly when one of its members is rendered, and
\* the members rendered in it are visible per shouldShowField, the state
\* field also only with a country chosen.
C13_GroupRendering ==
    (phase = "ready" /\ selectedForm # NoForm) =>
       \A g \in Groups :
          LET watched == getFieldsValue(mounted, store)
          IN  /\ g.id \in RenderedItems(selectedForm.fields, watched)
                    <=> RenderedMembers(g) # {}
              /\ \A m \in RenderedMembers(g) :
                    /\ shouldShowField(m, watched)
                    /\ m.id = "state" => ~Falsy(watched["country"])

\* The order with the item at position `from` taken out and put at position
\* `to`, the items between the two moved by one place towards `from`.
Reinserted(order, from, to) ==
    [k \in DOMAIN order |->
        IF k = to THEN order[from]
        ELSE IF from <= k /\ k < to THEN order[k + 1]
        ELSE IF to < k /\ k <= from THEN order[k - 1]
        ELSE order[k]]

Ids(items) == [k \in DOMAIN items |-> items[k].id]
Item(id) == SimpleField(id, "text", FALSE, << >>, NoVisibility)

\* The ids a drag can name: those of the order, one that is not in it, and
\* no drop target.
DragIds(items) == Range(Ids(items)) \cup {"elsewhere", NoTarget}

\* moveItem(fromId, toId) as the claim describes it.
MoveItem(items, fromId, toId) ==
    IF \/ toId = NoTarget
       \/ fromId = toId
       \/ fromId \notin Range(Ids(items))
       \/ toId \notin Range(Ids(items))
    THEN items
    ELSE Reinserted(items, findIndex(items, fromId), findIndex(items, toId))

\* C14: a drag of one top-level item onto another takes the item out of the
\* order and puts it at the place of the other, the items between them moving
\* by one; [A,B,C,D] with A dragged onto C becomes [B,C,A,D]; a drag onto
\* itself, onto nothing or with an id that is not in the order changes
\* nothing; and a step that changes the order of the form is such a drag.
C14_MoveItem ==
    /\ [](\A fromId \in DragIds(selectedForm.fields) \ {NoTarget} :
            \A toId \in DragIds(selectedForm.fields) :
               movedFields(selectedForm.fields, fromId, toId)
                  = MoveItem(selectedForm.fields, fromId, toId))
    /\ [](Ids(movedFields(<<Item("A"), Item("B"), Item("C"), Item("D")>>, "A", "C"))
            = <<"B", "C", "A", "D">>)
    /\ [][(selectedForm'.formId = selectedForm.formId
             /\ selectedForm'.fields # selectedForm.fields)
            => \E fromId, toId \in Range(Ids(selectedForm.fields)) :
                  /\ fromId # toId
                  /\ selectedForm'.fields
                        = MoveItem(selectedForm.fields, fromId, toId)]_vars

\* country, first of three, has been dragged onto the third item: the two
\* groups have moved up by one place.
C14_Witness ==
    /\ phase = "ready"
    /\ selectedForm.formId = "travel_v1"
    /\ Ids(selectedForm.fields) = <<"residence", "household", "country">>

\* The form as GET /insurance/forms delivered it.
Loaded == FormDefinition(selectedForm.formId)

\* The positions of the current order that hold the item.
PositionsOf(item) == { k \in DOMAIN selectedForm.fields : selectedForm.fields[k] = item }

\* C15: whatever was reordered, the top-level items of the selected form are
\* the loaded items, each once and each as it was loaded -- a group with its
\* members in the loaded order -- and formId and title are the loaded ones.
C15_OrderIsPermutation ==
    selectedForm # NoForm =>
       /\ selectedForm.formId = Loaded.formId
       /\ selectedForm.title = Loaded.title
       /\ Len(selectedForm.fields) = Len(Loaded.fields)
       /\ \A k \in DOMAIN Loaded.fields :
             Cardinality(PositionsOf(Loaded.fields[k])) = 1

\* The group household, last of three, has been dragged onto the first item:
\* every item has left its place.
C15_Witness ==
    /\ phase = "ready"
    /\ selectedForm.formId = "travel_v1"
    /\ \A k \in DOMAIN selectedForm.fields : selectedForm.fields[k] # Loaded.fields[k]
    /\ Ids(selectedForm.fields) = <<"household", "country", "residence">>
    /\ changes > 0

\* The simple fields of the selected form that declare dynamicOptions
\* depending on the field.
Dependents(id) ==
    { f \in Range(allSimpleFields(selectedForm.fields)) :
        f.dynamicOptions.dependsOn = id }

\* C16: when the user changes the answer of a field, the resolver runs for
\* every field that declares dynamicOptions depending on it: with an empty
\* answer the cached options of the dependent become the empty sequence, and
\* else a fetch from the endpoint the dependent declares is in flight with the
\* new answer.
C16_ResolverIsGeneric ==
    [][\A id \in FieldIds :
          (changes' # changes /\ store'[id] # store[id]) =>
             \A f \in Dependents(id) :
                IF Falsy(store'[id])
                THEN /\ f.id \in DOMAIN dynamicOptions'
                     /\ dynamicOptions'[f.id] = << >>
                ELSE \E i \in DOMAIN pending' :
                        /\ pending'[i].latest
                        /\ pending'[i].val = store'[id]
                        /\ pending'[i].endpoint = f.dynamicOptions.endpoint]_vars

\* The step is the user's change of the answer of country.
CountryChanges == changes' # changes /\ store'["country"] # store["country"]

\* The draft stored for the form after the step holds the answer the user
\* gave for country.
DraftHasCountry(formId, val) ==
    /\ draftKey(formId) \in DOMAIN storage'
    /\ "country" \in DOMAIN storage'[draftKey(formId)]
    /\ storage'[draftKey(formId)]["country"] = val

\* C17: a change of country to an empty value empties the cached options of
\* state, issues no fetch and is saved to the draft; a change to another
\* value issues one fetch; when the fetch settles the cached options are the
\* array that was returned or, after a failure or a body without an array,
\* the empty sequence, the change is saved to the draft, and the form goes on
\* awaiting input.
C17_ResolverOutcomes ==
    /\ [][(CountryChanges /\ Falsy(store'["country"]))
            => /\ "state" \in DOMAIN dynamicOptions'
               /\ dynamicOptions'["state"] = << >>
               /\ Len(pending') = Len(pending)
               /\ DraftHasCountry(selectedForm.formId, store'["country"])
               /\ phase' = "ready" /\ submitting' = submitting]_vars
    /\ [][(CountryChanges /\ ~Falsy(store'["country"]))
            => /\ pending' # << >>
               /\ Len(pending') = Len(pending) + 1
               /\ pending'[Len(pending')].val = store'["country"]
               /\ dynamicOptions' = dynamicOptions
               /\ phase' = "ready" /\ submitting' = submitting]_vars
    /\ [][\A i \in DOMAIN pending :
            (phase = "ready" /\ pending' = RemoveAt(pending, i))
               => /\ "state" \in DOMAIN dynamicOptions'
                  /\ dynamicOptions'["state"] \in {StatesOf(pending[i].val.v), << >>}
                  /\ pending[i].latest
                        => (/\ expected'.status = "done"
                            /\ dynamicOptions'["state"] = expected'.options)
                  /\ DraftHasCountry(pending[i].formId, pending[i].val)
                  /\ phase' = "ready" /\ submitting' = submitting]_vars

\* The fetch for country = "US" has failed or brought no array: the cached
\* options of state are empty, the draft holds the answer, and the form
\* awaits input.
C17_Witness ==
    /\ phase = "ready"
    /\ pending = << >>
    /\ store["country"] = Str("US")
    /\ expected = [status |-> "done", options |-> << >>]
    /\ "state" \in DOMAIN dynamicOptions
    /\ dynamicOptions["state"] = << >>
    /\ "country" \in DOMAIN StoredDraft
    /\ StoredDraft["country"] = Str("US")

\* C18: the payload handed to submitFormData is the whole AnswerSet: the
\* answer of every field that has one, the fields hidden by a visibility rule
\* included, and nothing else.
C18_PayloadIsAnswerSet ==
    [][(~submitCall.outstanding /\ submitCall'.outstanding)
          => JSONstringify(submitCall'.payload) = JSONstringify(store)]_vars

\* C19: the state field is rendered exactly when country holds a truthy
\* answer and the visibility rule of state, if it has one, shows it.
C19_StateRendering ==
    (phase = "ready" /\ selectedForm # NoForm) =>
       \A f \in Range(allSimpleFields(selectedForm.fields)) :
          f.id = "state" =>
             (f.id \in mounted
                <=> (~Falsy(store["country"]) /\ shouldShowField(f, store)))

\* A country is chosen and state is hidden by its own rule.
C19_Witness ==
    /\ phase = "ready"
    /\ FieldStateUnlessSmoker \in Range(allSimpleFields(selectedForm.fields))
    /\ store["country"] = Str("US")
    /\ store["smoker"] = Str("Yes")
    /\ "state" \notin mounted

\* C20: from the selection of a form until the first change of country on
\* that form the cache holds no options for state, and no fetch is issued
\* for the form -- a draft with a country being restored or not.
C20_CacheEmptyUntilChange ==
    (phase = "ready" /\ selectedForm # NoForm /\ expected.status = "none")
        => /\ "state" \notin DOMAIN dynamicOptions
           /\ \A i \in DOMAIN pending : ~pending[i].current

\* The same field with its rule depending on another field.
DependingOn(f, id) == [f EXCEPT !.visibility.dependsOn = id]

\* The ids of the simple fields of the selected form.
FormFieldIds == { f.id : f \in Range(allSimpleFields(selectedForm.fields)) }

\* The AnswerSets the evaluator is tried on: the AnswerSet of the state, the
\* values the page watches, and the AnswerSet with the answer of the smoker
\* field, on which the rules of the forms depend, replaced by each of its
\* options and by no answer.
TriedAnswerSets ==
    {store, getFieldsValue(mounted, store)}
    \cup {WithAnswer(store, "smoker", v) :
            v \in {Str(o) : o \in Range(FieldSmoker.options)} \cup {Undefined}}

\* C21: shouldShowField shows every field without a rule and every field
\* whose condition is neither equals nor not_equals, on every AnswerSet; a
\* rule that depends on a field the form does not have is evaluated with no
\* answer: equals hides the field and not_equals shows it; and the page
\* renders the fields accordingly.
C21_FailOpen ==
    \A f \in Range(allSimpleFields(selectedForm.fields)) :
       \A answers \in TriedAnswerSets :
          /\ f.visibility = NoVisibility => shouldShowField(f, answers)
          /\ f.visibility.condition \notin {"equals", "not_equals"}
                => shouldShowField(f, answers)
          /\ f.visibility # NoVisibility
                => /\ shouldShowField(WithCondition(f, "contains"), answers)
                   /\ ~shouldShowField(
                          DependingOn(WithCondition(f, "equals"), "elsewhere"),
                          answers)
                   /\ shouldShowField(
                          DependingOn(WithCondition(f, "not_equals"), "elsewhere"),
                          answers)
          /\ (f.visibility # NoVisibility
                /\ f.visibility.dependsOn \notin FormFieldIds)
                => /\ f.visibility.condition = "equals"
                        => (~shouldShowField(f, answers) /\ f.id \notin mounted)
                   /\ f.visibility.condition = "not_equals"
                        => shouldShowField(f, answers)
          /\ (phase = "ready"
                /\ f.visibility.condition \notin {"equals", "not_equals", "absent"}
                /\ f.id # "state")
                => f.id \in mounted

\* terms, whose rule has the condition "contains", is rendered, and loyalty,
\* whose rule depends on a field the form does not have, is not, with smoker
\* answered "Yes".
C21_Witness ==
    /\ phase = "ready"
    /\ FieldTerms \in Range(allSimpleFields(selectedForm.fields))
    /\ FieldLoyalty \in Range(allSimpleFields(selectedForm.fields))
    /\ FieldLoyalty.visibility.dependsOn \notin FormFieldIds
    /\ store["smoker"] = Str("Yes")
    /\ "terms" \in mounted
    /\ "loyalty" \notin mounted

\* The step reorders the top-level items of the selected form.
Reorders ==
    /\ selectedForm'.formId = selectedForm.formId
    /\ selectedForm'.fields # selectedForm.fields

\* C22: a reorder changes the order of the fields and nothing else: the
\* AnswerSet, the cached options and the stored drafts are after it what they
\* were before it, an option fetch being in flight or not.
C22_ReorderFrame ==
    [][Reorders => /\ store' = store
                   /\ dynamicOptions' = dynamicOptions
                   /\ storage' = storage]_vars

\* C23: the submitting flag is set in every state in which a call of
\* submitFormData has not settled, and while one has not settled no step
\* makes another call: the call stays the one it was until it settles.
C23_OneSubmitInFlight ==
    /\ [](submitCall.outstanding => submitting)
    /\ [][submitCall.outstanding
            => (submitCall'.outstanding => submitCall' = submitCall)]_vars

\* A submission is in flight and the answers are no longer those that were
\* sent.
C23_Witness ==
    /\ phase = "ready"
    /\ submitting
    /\ submitCall.outstanding
    /\ submitCall.payload # getFieldsValue(mounted, store)
    /\ validateFields(selectedForm.fields, mounted, store) = {}
    /\ missingFields(selectedForm.fields, getFieldsValue(mounted, store)) = {}

\* The state fields of the selected form that are required and have no
\* visibility rule.
RequiredStateFields ==
    { f \in Range(allSimpleFields(selectedForm.fields)) :
        f.id = "state" /\ f.required /\ f.visibility = NoVisibility }

\* C24: a submit attempt with a required state field that has no visibility
\* rule and no answer is blocked and marks state, also when country is empty
\* and state is not rendered.
C24_HiddenStateIsMissing ==
    [][(Submit /\ RequiredStateFields # {} /\ IsEmptyValue(store["state"]))
          => /\ ~submitting'
             /\ ~submitCall'.outstanding
             /\ "state" \in fieldErrors']_vars

====
